---- MODULE Spec2Model ----
(***************************************************************************)
(* Lifting diary: the ownership-scoped data helpers (data/workouts.ts, the *)
(* mutation helpers of docs/data-mutation.md and docs/auth.md), the        *)
(* identity gate authClient (docs/data-fetching.md) and the three tables   *)
(* of db/schema.ts.                                                        *)
(*                                                                         *)
(* A table is the sequence of its rows in heap (insertion) order, which is *)
(* the order a query without ORDER BY lists them in.  A                    *)
(* nullable column holds <<>> for SQL NULL and <<v>> for a value.  A       *)
(* timestamp is a natural number.  An optional field of a JavaScript       *)
(* object is a field that is or is not in the DOMAIN of the record.        *)
(* Every helper runs inside one request; a request advances one awaited    *)
(* statement at a time, and the statements of different requests           *)
(* interleave freely.                                                      *)
(***************************************************************************)
EXTENDS Integers, Sequences, FiniteSets, TLC

VARIABLES
    workouts,       \* table "workouts": rows in heap order
    exercises,      \* table "exercises": rows in heap order
    exerciseSets,   \* table "exercise_sets": rows in heap order
    nextId,         \* per table, the number of ids defaultRandom() has issued
    req             \* the requests in flight: request -> its frame

vars == <<workouts, exercises, exerciseSets, nextId, req>>

(***************************************************************************)
(* Bounds of the model: the ids each table issues (MaxWorkouts for         *)
(* workouts, MaxChildren for exercises and sets together), the latest     *)
(* date and the helpers one request calls.                                 *)
(***************************************************************************)
MaxWorkouts == 2
MaxChildren == 3
MaxDate == 3
MaxHelpers == 2
TicksPerDay == 2
MaxRedirects == 2

Users == {"user_1", "user_2"}
NULL == "null"
Sessions == Users \cup {NULL}
Dates == 1..MaxDate
Orders == {0, 1}
Requests == {"r1", "r2"}

(***************************************************************************)
(* Sequence helpers.                                                       *)
(***************************************************************************)
Range(s) == {s[i] : i \in DOMAIN s}

\* The rows of table t that are in the set matching, in scan order.
SelectRows(t, matching) ==
    LET F[i \in 0..Len(t)] ==
            IF i = 0 THEN <<>>
            ELSE IF t[i] \in matching THEN Append(F[i - 1], t[i]) ELSE F[i - 1]
    IN  F[Len(t)]

RECURSIVE InsertDesc(_, _)
\* row placed into a sequence already sorted by date descending, after the
\* rows of the same date (the sort keeps scan order among equal keys).
InsertDesc(row, sorted) ==
    IF sorted = <<>> THEN <<row>>
    ELSE IF Head(sorted).date >= row.date
         THEN <<Head(sorted)>> \o InsertDesc(row, Tail(sorted))
         ELSE <<row>> \o sorted

RECURSIVE OrderByDateDesc(_)
OrderByDateDesc(rows) ==
    IF rows = <<>> THEN <<>>
    ELSE LET n == Len(rows)
         IN  InsertDesc(rows[n], OrderByDateDesc(SubSeq(rows, 1, n - 1)))

(***************************************************************************)
(* Rows and inputs.                                                        *)
(***************************************************************************)
\* db/schema.ts: the row of "workouts" that .values({ userId, ...data })
\* inserts.  The spread comes after userId, so a userId that data carries
\* replaces the caller's.  description and durationMinutes are the nullable
\* columns.
WorkoutRow(id, userId, data) ==
    [id |-> id,
     userId |-> IF "userId" \in DOMAIN data THEN data.userId ELSE userId,
     name |-> data.name,
     description |-> IF "description" \in DOMAIN data THEN <<data.description>>
                     ELSE <<>>,
     date |-> data.date,
     durationMinutes |-> IF "durationMinutes" \in DOMAIN data
                         THEN <<data.durationMinutes>> ELSE <<>>]

\* Number(formData.get("durationMinutes")): a duration is a JavaScript number
\* and need not be whole.  Durations are counted in tenths of a minute, so
\* that 1.5 is 15 and Minutes(45) is 45.
Minutes(n) == n * 10

\* integer("duration_minutes"): the column takes whole numbers only; the
\* statement that carries any other number fails in the store.
IntegerColumnTakes(data) ==
    "durationMinutes" \in DOMAIN data => data.durationMinutes % 10 = 0

ExerciseRow(id, workoutId, name, order) ==
    [id |-> id, workoutId |-> workoutId, name |-> name, description |-> <<>>,
     order |-> order]

\* real("weight_kg"): a 4-byte float holds an integer exactly up to 2^24 and
\* every second one, ties to the even mantissa, up to 2^25.
RealColumn(x) ==
    IF x <= 2^24 \/ x % 2 = 0 THEN x
    ELSE IF ((x - 1) \div 2) % 2 = 0 THEN x - 1 ELSE x + 1

ExerciseSetRow(id, exerciseId, order, reps, weightKg, restTimeSeconds) ==
    [id |-> id, exerciseId |-> exerciseId, order |-> order, reps |-> reps,
     weightKg |-> RealColumn(weightKg), restTimeSeconds |-> restTimeSeconds]

\* What a caller passes for the set at each order position.
SetInput(order) ==
    IF order = 0 THEN [reps |-> 5, weightKg |-> 100, restTimeSeconds |-> 120]
    ELSE [reps |-> 5, weightKg |-> 105, restTimeSeconds |-> 150]

\* getWorkoutsParams.filter: startDate and endDate are each optional.
Filters == UNION {[D -> Dates] : D \in SUBSET {"startDate", "endDate"}}

\* What a caller passes to createWorkoutHelper in the detail scenarios.
DetailInputs == {[name |-> "Leg Day", date |-> 1]}

\* The workout ids a request may name: those issued so far and one more.
WorkoutIds == 1..(MaxWorkouts + 1)
ChildIds == 1..MaxChildren

\* UpdateWorkoutInput payloads, and Partial<Workout> payloads that name a
\* new owner.
UpdateInputs == {[name |-> "Push Day"]}
OwnerInputs == {[userId |-> u] : u \in Users}

\* The payloads of two updates that race for one workout.
RaceInputs == {[name |-> "Push Day"], [name |-> "Pull Day"]}

\* What a caller passes to createWorkoutHelper in the list scenarios.
ListInputs == {[name |-> "Leg Day", date |-> d] : d \in Dates}

(***************************************************************************)
(* Identity gate.                                                          *)
(***************************************************************************)
\* The gate without its check: the session's userId is handed on as it is.
authClient_Unchecked(session) ==
    [ok |-> TRUE, userId |-> session]

\* lib/auth.ts: const { userId } = await auth(); if (!userId) throw new
\* UnauthorizedError(); return { userId }.
authClient(session) ==
    IF session = NULL
    THEN [ok |-> FALSE, userId |-> NULL]
    ELSE [ok |-> TRUE, userId |-> session]

(***************************************************************************)
(* Request frames.                                                         *)
(***************************************************************************)
Pending == [tag |-> "pending"]
Unauthorized == [tag |-> "UnauthorizedError"]
Forbidden == [tag |-> "ForbiddenError"]
Undefined == [tag |-> "undefined"]
Void == [tag |-> "void"]
Error(message) == [tag |-> "Error", message |-> message]

\* A helper's activation: the session of its request, the identity the gate
\* resolved, its arguments, the row it fetched, the statements it has issued
\* and what it returned or threw.  cache is the request's entry of React's
\* cache() for authClient: empty, or the outcome of its one run.  seen is the
\* table as the helper's query read it and affected the rows, as they were,
\* that its mutating statement hit; helpers counts the helpers the request
\* has called, derived the runs of auth() inside authClient and identities
\* lists what authClient handed to each helper; log is what the helper wrote
\* with console.error and failed the errors the store raised to it (seen,
\* affected, helpers, derived, identities and failed are kept for the
\* properties; no helper reads them).
Frame(op, session, args, pc) ==
    [op |-> op, session |-> session, pc |-> pc, userId |-> NULL,
     args |-> args, fetched |-> <<>>, seen |-> <<>>, affected |-> <<>>,
     queries |-> 0, result |-> Pending,
     cache |-> <<>>, helpers |-> 1, derived |-> 0, identities |-> <<>>,
     log |-> <<>>, failed |-> <<>>]

Idle == [op |-> "idle", session |-> NULL, pc |-> "idle", userId |-> NULL,
         args |-> <<>>, fetched |-> <<>>, seen |-> <<>>, affected |-> <<>>,
         queries |-> 0, result |-> Pending,
         cache |-> <<>>, helpers |-> 0, derived |-> 0, identities |-> <<>>,
         log |-> <<>>, failed |-> <<>>]

Throw(f, error) == [f EXCEPT !.pc = "done", !.result = error]

\* authClient run anew by every helper: no cache().
AuthClientStep_NoCache(r) ==
    /\ req[r].pc = "authClient"
    /\ LET a == authClient(req[r].session)
           f == [req[r] EXCEPT !.cache = <<a>>, !.derived = @ + 1,
                               !.identities = Append(@, a.userId)]
       IN  req' = [req EXCEPT ![r] =
                     IF a.ok THEN [f EXCEPT !.userId = a.userId, !.pc = "query"]
                     ELSE Throw(f, Unauthorized)]
    /\ UNCHANGED <<workouts, exercises, exerciseSets, nextId>>

\* authClient behind a cache the requests share: an outcome another request
\* has resolved is handed out.
AuthClientStep_SharedCache(r) ==
    /\ req[r].pc = "authClient"
    /\ LET others == {q \in DOMAIN req : req[q].cache # <<>>}
           hit == others # {}
           a == IF hit THEN req[CHOOSE q \in others : TRUE].cache[1]
                ELSE authClient(req[r].session)
           f == [req[r] EXCEPT !.cache = <<a>>,
                               !.derived = IF hit THEN @ ELSE @ + 1,
                               !.identities = Append(@, a.userId)]
       IN  req' = [req EXCEPT ![r] =
                     IF a.ok THEN [f EXCEPT !.userId = a.userId, !.pc = "query"]
                     ELSE Throw(f, Unauthorized)]
    /\ UNCHANGED <<workouts, exercises, exerciseSets, nextId>>

\* const { userId } = await authClient(); with authClient = cache(async ()
\* => ...): the first call of the request runs the function and later calls
\* get its outcome, a throw included.
AuthClientStep(r) ==
    /\ req[r].pc = "authClient"
    /\ LET hit == req[r].cache # <<>>
           a == IF hit THEN req[r].cache[1] ELSE authClient(req[r].session)
           f == [req[r] EXCEPT !.cache = <<a>>,
                               !.derived = IF hit THEN @ ELSE @ + 1,
                               !.identities = Append(@, a.userId)]
       IN  req' = [req EXCEPT ![r] =
                     IF a.ok THEN [f EXCEPT !.userId = a.userId, !.pc = "query"]
                     ELSE Throw(f, Unauthorized)]
    /\ UNCHANGED <<workouts, exercises, exerciseSets, nextId>>

\* The request calls its next helper: the cache entry stays.
NextHelper(f, op, args) ==
    [Frame(op, f.session, args, "authClient") EXCEPT
        !.cache = f.cache, !.helpers = f.helpers + 1, !.derived = f.derived,
        !.identities = f.identities]

\* The helper's promise settles and the request ends.
Return(r) ==
    /\ req[r].pc = "done"
    /\ req' = [req EXCEPT ![r] = Idle]
    /\ UNCHANGED <<workouts, exercises, exerciseSets, nextId>>

(***************************************************************************)
(* getWorkouts (data/workouts.ts).                                         *)
(***************************************************************************)
\* The list query without its ownership predicate.
GetWorkoutsWhere_NoOwner(userId, filter, w) ==
    IF "startDate" \in DOMAIN filter /\ "endDate" \in DOMAIN filter
    THEN w.date >= filter.startDate /\ w.date < filter.endDate
    ELSE IF "startDate" \in DOMAIN filter THEN w.date >= filter.startDate
    ELSE IF "endDate" \in DOMAIN filter THEN w.date < filter.endDate
    ELSE TRUE

\* The list query with lte in place of lt on the end date.
GetWorkoutsWhere_EndInclusive(userId, filter, w) ==
    /\ w.userId = userId
    /\ IF "startDate" \in DOMAIN filter /\ "endDate" \in DOMAIN filter
       THEN w.date >= filter.startDate /\ w.date <= filter.endDate
       ELSE IF "startDate" \in DOMAIN filter THEN w.date >= filter.startDate
       ELSE IF "endDate" \in DOMAIN filter THEN w.date < filter.endDate
       ELSE TRUE

\* and(...conditions): eq(workouts.userId, userId), then gte/lt on the date
\* for the bounds the filter carries.
GetWorkoutsWhere(userId, filter, w) ==
    /\ w.userId = userId
    /\ IF "startDate" \in DOMAIN filter /\ "endDate" \in DOMAIN filter
       THEN w.date >= filter.startDate /\ w.date < filter.endDate
       ELSE IF "startDate" \in DOMAIN filter THEN w.date >= filter.startDate
       ELSE IF "endDate" \in DOMAIN filter THEN w.date < filter.endDate
       ELSE TRUE

\* The list query without its orderBy: rows in scan order.
GetWorkoutsQuery_Unordered(table, userId, filter) ==
    SelectRows(table, {w \in Range(table) : GetWorkoutsWhere(userId, filter, w)})

\* db.select().from(workouts).where(and(...conditions)).orderBy(desc(date))
GetWorkoutsQuery(table, userId, filter) ==
    OrderByDateDesc(
        SelectRows(table, {w \in Range(table) : GetWorkoutsWhere(userId, filter, w)}))

CallGetWorkouts(r, session, filter) ==
    /\ req[r].pc = "idle"
    /\ req' = [req EXCEPT ![r] = Frame("getWorkouts", session, [filter |-> filter],
                                       "authClient")]
    /\ UNCHANGED <<workouts, exercises, exerciseSets, nextId>>

\* A later getWorkouts of the same request.
ThenGetWorkouts(r, filter) ==
    /\ req[r].op \in {"getWorkouts", "getWorkoutWithExercisesAndSets"}
    /\ req[r].pc = "done"
    /\ req[r].helpers < MaxHelpers
    /\ req' = [req EXCEPT ![r] = NextHelper(@, "getWorkouts", [filter |-> filter])]
    /\ UNCHANGED <<workouts, exercises, exerciseSets, nextId>>

GetWorkoutsStep(r) ==
    /\ req[r].op = "getWorkouts"
    /\ req[r].pc = "query"
    /\ req' = [req EXCEPT ![r] =
                 [@ EXCEPT !.pc = "done", !.queries = @ + 1,
                           !.seen = workouts,
                           !.result = [tag |-> "rows",
                                       rows |-> GetWorkoutsQuery(workouts, req[r].userId,
                                                                 req[r].args.filter)]]]
    /\ UNCHANGED <<workouts, exercises, exerciseSets, nextId>>

(***************************************************************************)
(* createWorkoutHelper (docs/data-mutation.md).                            *)
(***************************************************************************)
\* auth(); if (!userId) throw; insert {userId, ...data} returning.  The
\* throw leaves the store as it is.
createWorkoutHelper(session, data) ==
    /\ session # NULL
    /\ nextId.workouts < MaxWorkouts
    /\ workouts' = Append(workouts, WorkoutRow(nextId.workouts + 1, session, data))
    /\ nextId' = [nextId EXCEPT !.workouts = @ + 1]
    /\ UNCHANGED <<exercises, exerciseSets, req>>

\* createWorkoutHelper called by a request: the helper's data as the caller
\* built it.
CallCreateWorkoutHelper(r, session, data) ==
    /\ req[r].pc = "idle"
    /\ nextId.workouts + Cardinality({q \in Requests : req[q].pc = "create"})
          < MaxWorkouts
    /\ req' = [req EXCEPT ![r] = Frame("createWorkoutHelper", session,
                                       [data |-> data], "create")]
    /\ UNCHANGED <<workouts, exercises, exerciseSets, nextId>>

(***************************************************************************)
(* The dashboard (app/dashboard/page.tsx, actions/set-timezone-cookie.ts). *)
(* An instant is a count of ticks since the epoch, a tick being the        *)
(* resolution of a Date, and a day has TicksPerDay of them: the last tick  *)
(* of a day is its 23:59:59.999.                                           *)
(***************************************************************************)
Days == 0..2
Instants == 0..(3 * TicksPerDay - 1)
Offsets == {0 - 1, 0, 1}

\* What a caller passes to createWorkoutHelper in the dashboard scenarios.
DashboardInputs == {[name |-> "Leg Day", date |-> t] : t \in Instants}

\* What a client may pass to setTimezoneCookie: the name of a time zone, with
\* whether it has a "/" in it and, when the runtime knows a zone of that
\* name, its offset from UTC in ticks.
Timezones ==
    {[name |-> "UTC", slash |-> FALSE, offset |-> 0],
     [name |-> "America/New_York", slash |-> TRUE, offset |-> 0 - 1],
     [name |-> "Asia/Tokyo", slash |-> TRUE, offset |-> 1],
     [name |-> "Foo/Bar", slash |-> TRUE]}

\* setTimezoneCookie(timezone): if (typeof timezone !== "string" ||
\* !timezone.includes("/")) return; cookieStore.set("user_timezone", timezone).
setTimezoneCookie(cookies, timezone) ==
    IF ~timezone.slash THEN cookies ELSE <<timezone>>

\* cookieStore.get("user_timezone")?.value || "UTC"
UserTimezone(cookies) ==
    IF cookies = <<>> THEN [name |-> "UTC", slash |-> FALSE, offset |-> 0]
    ELSE cookies[1]

\* The offset TZDate works with: none (NaN, an Invalid Date) for a name that
\* is no time zone.
tzOffset(timezone) ==
    IF "offset" \in DOMAIN timezone THEN <<timezone.offset>> ELSE <<>>

\* The calendar day an instant falls on in a zone.
LocalDay(instant, offset) == (instant + offset) \div TicksPerDay

\* A value of the date parameter: its shape, and the day it names when it
\* names one ("2025-02-30" has the shape and names none).
IsoDate(day) == [shape |-> "yyyy-MM-dd", day |-> <<day>>]
DateStrings ==
    {IsoDate(d) : d \in Days}
        \cup {[shape |-> "yyyy-MM-dd", day |-> <<>>], [shape |-> "other", day |-> <<>>]}

\* The date parameter of a request: absent, or a string.
DateParams == {<<>>} \cup {<<str>> : str \in DateStrings}

\* dateSchema.safeParse(val).success: the regex, then isValid(parseISO(val)).
dateSchema(val) == val.shape = "yyyy-MM-dd" /\ val.day # <<>>

\* !!dateParam && dateSchema.safeParse(dateParam).success
IsValidDateParam(dateParam) == dateParam # <<>> /\ dateSchema(dateParam[1])

\* format(new TZDate(now, userTimezone), "yyyy-MM-dd")
Format(now, offset) == IsoDate(LocalDay(now, offset))

\* parseISO(dateParam): midnight of that day on the server's clock.
parseISO(val, serverOffset) == val.day[1] * TicksPerDay - serverOffset

\* startOfDay and endOfDay of a TZDate: the first and the last tick of the
\* day the instant falls on in the TZDate's zone.
startOfDay(instant, offset) == LocalDay(instant, offset) * TicksPerDay - offset
endOfDay(instant, offset) == startOfDay(instant, offset) + TicksPerDay - 1

\* A browser asks for /dashboard, with or without date parameter, carrying
\* the cookie an earlier setTimezoneCookie(timezone) left it with.
CallDashboardPage(r, session, dateParam, timezone) ==
    /\ req[r].pc = "idle"
    /\ req' = [req EXCEPT ![r] =
                 Frame("DashboardPage", session,
                       [requested |-> dateParam, dateParam |-> dateParam,
                        cookies |-> setTimezoneCookie(<<>>, timezone),
                        redirects |-> 0, location |-> <<>>], "page")]
    /\ UNCHANGED <<workouts, exercises, exerciseSets, nextId>>

\* DashboardPage: for a date parameter that is missing or not valid,
\* redirect to /dashboard?date=today, which the browser asks for next;
\* otherwise the day's bounds go to WorkoutList, which calls getWorkouts with
\* them.  format and the query throw on the Invalid Date that a cookie naming
\* no time zone gives.  now is the server's new Date(), serverOffset the zone
\* of its clock.
DashboardPageStep(r, now, serverOffset) ==
    /\ req[r].op = "DashboardPage"
    /\ req[r].pc = "page"
    /\ LET args == req[r].args
           offset == tzOffset(UserTimezone(args.cookies))
       IN  IF offset = <<>>
           THEN req' = [req EXCEPT ![r] = Throw(@, Error("Invalid time value"))]
           ELSE IF ~IsValidDateParam(args.dateParam)
           THEN /\ args.redirects < MaxRedirects
                /\ req' = [req EXCEPT ![r].args =
                             [args EXCEPT !.dateParam = <<Format(now, offset[1])>>,
                                          !.location = <<Format(now, offset[1])>>,
                                          !.redirects = @ + 1]]
           ELSE LET date == parseISO(args.dateParam[1], serverOffset)
                IN  req' = [req EXCEPT ![r] =
                              [@ EXCEPT
                                 !.op = "getWorkouts", !.pc = "authClient",
                                 !.args =
                                    [filter |-> [startDate |-> startOfDay(date, offset[1]),
                                                 endDate |-> endOfDay(date, offset[1])],
                                     requested |-> args.requested,
                                     dateParam |-> args.dateParam,
                                     cookies |-> args.cookies,
                                     redirects |-> args.redirects,
                                     location |-> args.location]]]
    /\ UNCHANGED <<workouts, exercises, exerciseSets, nextId>>

(***************************************************************************)
(* createWorkoutAction and its schema (docs/data-mutation.md).             *)
(***************************************************************************)
MaxNameLength == 100

\* new Date() as the refinement of the schema reads it.
Now == MaxDate

Issue(path, message) == [path |-> path, message |-> message]

\* The schema without min(1) on the name.
createWorkoutSchema_NoMin(raw) ==
    LET name == IF raw.name = NULL
                THEN <<Issue("name", "Expected string, received null")>>
                ELSE IF Len(raw.name) > MaxNameLength
                     THEN <<Issue("name", "Name too long")>>
                     ELSE <<>>
        description == IF raw.description = NULL
                       THEN <<Issue("description", "Expected string, received null")>>
                       ELSE <<>>
        durationMinutes == IF "durationMinutes" \in DOMAIN raw /\ raw.durationMinutes <= 0
                           THEN <<Issue("durationMinutes", "Duration must be positive")>>
                           ELSE <<>>
        aborted == raw.name = NULL \/ raw.description = NULL
        refine == IF ~aborted /\ raw.date > Now
                  THEN <<Issue("date", "Cannot create workout in the future")>>
                  ELSE <<>>
    IN  name \o description \o durationMinutes \o refine

\* createWorkoutSchema.safeParse(rawData).error.errors: the issues in the
\* order zod raises them, field by field in the order of the shape, then the
\* refinement, which runs unless a field had the wrong type.  z.string()
\* takes no null, also under optional(); z.coerce.date() takes every date
\* drawn here.
createWorkoutSchema(raw) ==
    LET name == IF raw.name = NULL
                THEN <<Issue("name", "Expected string, received null")>>
                ELSE IF Len(raw.name) < 1
                     THEN <<Issue("name", "Name is required")>>
                     ELSE IF Len(raw.name) > MaxNameLength
                          THEN <<Issue("name", "Name too long")>>
                          ELSE <<>>
        description == IF raw.description = NULL
                       THEN <<Issue("description", "Expected string, received null")>>
                       ELSE <<>>
        durationMinutes == IF "durationMinutes" \in DOMAIN raw /\ raw.durationMinutes <= 0
                           THEN <<Issue("durationMinutes", "Duration must be positive")>>
                           ELSE <<>>
        aborted == raw.name = NULL \/ raw.description = NULL
        refine == IF ~aborted /\ raw.date > Now
                  THEN <<Issue("date", "Cannot create workout in the future")>>
                  ELSE <<>>
    IN  name \o description \o durationMinutes \o refine

\* rawData as the action reads it off the form: a field the form lacks is
\* null, a duration it lacks is undefined.
RawInputs ==
    LET base == [name : {"", "Leg Day"}, description : {NULL, "Heavy"},
                 date : {1, Now + 1}]
    IN  base \cup {[f \in DOMAIN b \cup {"durationMinutes"} |->
                       IF f = "durationMinutes" THEN d ELSE b[f]] :
                   b \in base, d \in {0, 15, Minutes(45)}}

\* createWorkoutHelper's data as a caller may build it: a CreateWorkoutInput,
\* or an object of that shape that also carries a userId.
HelperInputs ==
    {[name |-> "Leg Day", date |-> 1]}
        \cup {[name |-> "Leg Day", date |-> 1, userId |-> u] : u \in Users}

\* const result = createWorkoutSchema.safeParse(rawData); if
\* (!result.success) throw new Error(result.error.errors[0].message); const
\* workout = await createWorkoutHelper(result.data);
CallCreateWorkoutAction(r, session, raw) ==
    /\ req[r].pc = "idle"
    /\ nextId.workouts + Cardinality({q \in Requests : req[q].pc = "create"})
          < MaxWorkouts
    /\ LET errors == createWorkoutSchema(raw)
       IN  req' = [req EXCEPT ![r] =
                     IF errors # <<>>
                     THEN Throw(Frame("createWorkoutAction", session,
                                      [raw |-> raw], "validate"),
                                Error(errors[1].message))
                     ELSE Frame("createWorkoutAction", session,
                                [raw |-> raw, data |-> raw], "create")]
    /\ UNCHANGED <<workouts, exercises, exerciseSets, nextId>>

\* createWorkoutHelper inside a request: auth(), then the insert with
\* returning(); the action goes on to redirect to the new workout.
CreateWorkoutHelperStep(r) ==
    /\ req[r].op \in {"createWorkoutHelper", "createWorkoutAction"}
    /\ req[r].pc = "create"
    /\ IF req[r].session = NULL
       THEN /\ req' = [req EXCEPT ![r] = Throw(@, Error("Unauthorized"))]
            /\ UNCHANGED <<workouts, nextId>>
       ELSE IF ~IntegerColumnTakes(req[r].args.data)
       THEN /\ req' = [req EXCEPT ![r] =
                         Throw([@ EXCEPT !.queries = @ + 1,
                                         !.userId = req[r].session],
                               Error("invalid input syntax for type integer"))]
            /\ UNCHANGED <<workouts, nextId>>
       ELSE LET workout == WorkoutRow(nextId.workouts + 1, req[r].session,
                                      req[r].args.data)
            IN  /\ workouts' = Append(workouts, workout)
                /\ nextId' = [nextId EXCEPT !.workouts = @ + 1]
                /\ req' = [req EXCEPT ![r] =
                             [@ EXCEPT !.pc = "done", !.queries = @ + 1,
                                       !.userId = req[r].session,
                                       !.seen = workouts,
                                       !.result =
                                          IF req[r].op = "createWorkoutHelper"
                                          THEN [tag |-> "workout", workout |-> workout]
                                          ELSE [tag |-> "redirect", to |-> workout.id]]]
    /\ UNCHANGED <<exercises, exerciseSets>>

(***************************************************************************)
(* Children of a workout.  The repository's helpers for them are not in    *)
(* the source tree; the inserts follow the design document (the parent     *)
(* workout passes the ownership check before any child mutation) and the   *)
(* foreign keys of db/schema.ts.                                           *)
(***************************************************************************)
createExercise(session, workoutId, order) ==
    /\ session # NULL
    /\ nextId.exercises + nextId.exerciseSets < MaxChildren
    /\ \E w \in Range(workouts) : w.id = workoutId /\ w.userId = session
    /\ exercises' = Append(exercises,
                           ExerciseRow(nextId.exercises + 1, workoutId, "Squat", order))
    /\ nextId' = [nextId EXCEPT !.exercises = @ + 1]
    /\ UNCHANGED <<workouts, exerciseSets, req>>

createExerciseSet(session, exerciseId, order) ==
    /\ session # NULL
    /\ nextId.exercises + nextId.exerciseSets < MaxChildren
    /\ \E e \in Range(exercises) :
          /\ e.id = exerciseId
          /\ \E w \in Range(workouts) : w.id = e.workoutId /\ w.userId = session
    /\ exerciseSets' = Append(exerciseSets,
                              ExerciseSetRow(nextId.exerciseSets + 1, exerciseId, order,
                                             SetInput(order).reps,
                                             SetInput(order).weightKg,
                                             SetInput(order).restTimeSeconds))
    /\ nextId' = [nextId EXCEPT !.exerciseSets = @ + 1]
    /\ UNCHANGED <<workouts, exercises, req>>

(***************************************************************************)
(* getWorkoutWithExercisesAndSets (data/workouts.ts).                      *)
(***************************************************************************)
\* The relation that lists an exercise's sets newest first.
WithSets_NewestFirst(e, setTable) ==
    LET own == SelectRows(setTable, {x \in Range(setTable) : x.exerciseId = e.id})
    IN  [f \in DOMAIN e \cup {"sets"} |->
            IF f = "sets" THEN [i \in DOMAIN own |-> own[Len(own) + 1 - i]]
            ELSE e[f]]

\* db/relations.ts, exercisesRelations.sets: the sets of exercise e, as the
\* relational query lists them (no orderBy: scan order).
WithSets(e, setTable) ==
    [f \in DOMAIN e \cup {"sets"} |->
        IF f = "sets"
        THEN SelectRows(setTable, {x \in Range(setTable) : x.exerciseId = e.id})
        ELSE e[f]]

\* db/relations.ts, workoutsRelations.exercises: the exercises of workout w,
\* each with its sets.
WithExercises(w, exerciseTable, setTable) ==
    LET own == SelectRows(exerciseTable, {e \in Range(exerciseTable) : e.workoutId = w.id})
    IN  [f \in DOMAIN w \cup {"exercises"} |->
            IF f = "exercises"
            THEN [i \in DOMAIN own |-> WithSets(own[i], setTable)]
            ELSE w[f]]

\* db.query.workouts.findFirst({ where: eq(workouts.id, workoutId), with:
\* { exercises: { with: { sets: true } } } }): <<>> when no row matches.
FindFirstWorkout(workoutTable, exerciseTable, setTable, workoutId) ==
    LET hit == SelectRows(workoutTable, {w \in Range(workoutTable) : w.id = workoutId})
    IN  IF hit = <<>> THEN <<>>
        ELSE <<WithExercises(hit[1], exerciseTable, setTable)>>

\* The detail read without its ownership check.
DetailResult_NoCheck(workout, userId) ==
    IF workout = <<>> THEN Undefined
    ELSE [tag |-> "workout", workout |-> workout[1]]

\* The detail read that also throws for a missing row.
DetailResult_MissingForbidden(workout, userId) ==
    IF workout = <<>> \/ workout[1].userId # userId THEN Forbidden
    ELSE [tag |-> "workout", workout |-> workout[1]]

\* if (workout && workout.userId !== userId) throw new ForbiddenError();
\* return workout;
DetailResult(workout, userId) ==
    IF workout # <<>> /\ workout[1].userId # userId THEN Forbidden
    ELSE IF workout = <<>> THEN Undefined
    ELSE [tag |-> "workout", workout |-> workout[1]]

CallGetWorkoutWithExercisesAndSets(r, session, workoutId) ==
    /\ req[r].pc = "idle"
    /\ req' = [req EXCEPT ![r] = Frame("getWorkoutWithExercisesAndSets", session,
                                       [workoutId |-> workoutId], "authClient")]
    /\ UNCHANGED <<workouts, exercises, exerciseSets, nextId>>

\* A later getWorkoutWithExercisesAndSets of the same request.
ThenGetWorkoutWithExercisesAndSets(r, workoutId) ==
    /\ req[r].op \in {"getWorkouts", "getWorkoutWithExercisesAndSets"}
    /\ req[r].pc = "done"
    /\ req[r].helpers < MaxHelpers
    /\ req' = [req EXCEPT ![r] = NextHelper(@, "getWorkoutWithExercisesAndSets",
                                            [workoutId |-> workoutId])]
    /\ UNCHANGED <<workouts, exercises, exerciseSets, nextId>>

GetWorkoutWithExercisesAndSetsStep(r) ==
    /\ req[r].op = "getWorkoutWithExercisesAndSets"
    /\ req[r].pc = "query"
    /\ LET workout == FindFirstWorkout(workouts, exercises, exerciseSets,
                                       req[r].args.workoutId)
       IN  req' = [req EXCEPT ![r] =
                     [@ EXCEPT !.pc = "done", !.queries = @ + 1,
                               !.fetched = workout, !.seen = workouts,
                               !.result = DetailResult(workout, req[r].userId)]]
    /\ UNCHANGED <<workouts, exercises, exerciseSets, nextId>>

\* notFound(): the segment's not-found.tsx, "Workout Not Found".
NotFound == [tag |-> "notFound"]

\* WorkoutDetailsPage after its await of getWorkoutWithExercisesAndSets:
\* if (!workout) notFound(); return <WorkoutDetail workout={workout} />.  The
\* page has no try/catch, so what the helper threw leaves the page as it is.
WorkoutDetailsPage(outcome) ==
    IF outcome = Undefined THEN NotFound
    ELSE IF outcome.tag = "workout"
         THEN [tag |-> "WorkoutDetail", workout |-> outcome.workout]
    ELSE outcome

(***************************************************************************)
(* The read helpers of the generation before authClient: the caller hands  *)
(* them the identity.  They have no gate; the first thing they do is the   *)
(* query.                                                                  *)
(***************************************************************************)
\* The userId a caller may hand over: an identity or the empty string.
UserIdParams == Users \cup {""}

\* getWorkouts({ userId, filter }) is called.
CallGetWorkoutsOf(r, userId, filter) ==
    /\ req[r].pc = "idle"
    /\ req' = [req EXCEPT ![r] =
                 [Frame("getWorkoutsOf", NULL, [userId |-> userId, filter |-> filter],
                        "query") EXCEPT !.userId = userId]]
    /\ UNCHANGED <<workouts, exercises, exerciseSets, nextId>>

\* const conditions = [eq(workouts.userId, userId)]; then, by the bounds the
\* filter carries, gte(workouts.date, startDate) and lt(workouts.date,
\* endDate).
GetWorkoutsOfWhere(userId, filter, w) ==
    LET hasStart == "startDate" \in DOMAIN filter
        hasEnd == "endDate" \in DOMAIN filter
        conditions ==
            <<w.userId = userId>>
               \o (IF hasStart /\ hasEnd
                   THEN <<w.date >= filter.startDate, w.date < filter.endDate>>
                   ELSE IF hasStart THEN <<w.date >= filter.startDate>>
                   ELSE IF hasEnd THEN <<w.date < filter.endDate>>
                   ELSE <<>>)
    IN  \A i \in DOMAIN conditions : conditions[i]

\* db.select().from(workouts).where(and(...conditions))
\* .orderBy(desc(workouts.date)) of the earlier generation.
GetWorkoutsOfQuery(table, userId, filter) ==
    OrderByDateDesc(
        SelectRows(table, {w \in Range(table) : GetWorkoutsOfWhere(userId, filter, w)}))

GetWorkoutsOfStep(r) ==
    /\ req[r].op = "getWorkoutsOf"
    /\ req[r].pc = "query"
    /\ req' = [req EXCEPT ![r] =
                 [@ EXCEPT !.pc = "done", !.queries = @ + 1,
                           !.seen = workouts,
                           !.result = [tag |-> "rows",
                                       rows |-> GetWorkoutsOfQuery(workouts,
                                                                   req[r].args.userId,
                                                                   req[r].args.filter)]]]
    /\ UNCHANGED <<workouts, exercises, exerciseSets, nextId>>

\* The earlier detail query scoped by the id alone.
FindFirstWorkoutOf_AnyOwner(workoutTable, exerciseTable, setTable, workoutId, userId) ==
    LET hit == SelectRows(workoutTable, {w \in Range(workoutTable) : w.id = workoutId})
    IN  IF hit = <<>> THEN <<>>
        ELSE <<WithExercises(hit[1], exerciseTable, setTable)>>

\* db.query.workouts.findFirst({ where: and(eq(workouts.id, workoutId),
\* eq(workouts.userId, userId)), with: ... }).
FindFirstWorkoutOf(workoutTable, exerciseTable, setTable, workoutId, userId) ==
    LET hit == SelectRows(workoutTable,
                          {w \in Range(workoutTable) :
                              w.id = workoutId /\ w.userId = userId})
    IN  IF hit = <<>> THEN <<>>
        ELSE <<WithExercises(hit[1], exerciseTable, setTable)>>

\* getWorkoutWithExercisesAndSets({ workoutId, userId }) is called.
CallGetWorkoutWithExercisesAndSetsOf(r, workoutId, userId) ==
    /\ req[r].pc = "idle"
    /\ req' = [req EXCEPT ![r] =
                 [Frame("getWorkoutWithExercisesAndSetsOf", NULL,
                        [workoutId |-> workoutId, userId |-> userId], "query")
                     EXCEPT !.userId = userId]]
    /\ UNCHANGED <<workouts, exercises, exerciseSets, nextId>>

\* return await db.query.workouts.findFirst(...): the row or undefined.
GetWorkoutWithExercisesAndSetsOfStep(r) ==
    /\ req[r].op = "getWorkoutWithExercisesAndSetsOf"
    /\ req[r].pc = "query"
    /\ LET workout == FindFirstWorkoutOf(workouts, exercises, exerciseSets,
                                         req[r].args.workoutId, req[r].args.userId)
       IN  req' = [req EXCEPT ![r] =
                     [@ EXCEPT !.pc = "done", !.queries = @ + 1,
                               !.fetched = workout, !.seen = workouts,
                               !.result = IF workout = <<>> THEN Undefined
                                          ELSE [tag |-> "workout",
                                                workout |-> workout[1]]]]
    /\ UNCHANGED <<workouts, exercises, exerciseSets, nextId>>

(***************************************************************************)
(* The mutation helpers (docs/data-mutation.md, docs/data-fetching.md).    *)
(***************************************************************************)
\* An UPDATE whose SET writes nothing.
SetColumns_Lost(row, data) == row

\* .set(data): the columns data carries replace the row's; a value for a
\* nullable column is stored as the column holds it.
SetColumns(row, data) ==
    [f \in DOMAIN row |-> IF f \notin DOMAIN data THEN row[f]
                          ELSE IF f \in {"description", "durationMinutes"}
                               THEN <<data[f]>>
                          ELSE data[f]]

\* UPDATE workouts SET data WHERE the row is in matching: the table
\* afterwards.
UpdateRows(table, matching, data) ==
    [i \in DOMAIN table |-> IF table[i] \in matching THEN SetColumns(table[i], data)
                            ELSE table[i]]

\* Tables without foreign keys: every statement passes.
ForeignKeysHold_Unchecked(workoutTable, exerciseTable, setTable) == TRUE

\* db/schema.ts: exercises.workoutId references workouts.id and
\* exerciseSets.exerciseId references exercises.id, with no onDelete (the
\* migration reads ON DELETE no action): a statement that would leave a
\* referencing row without its parent fails.
ForeignKeysHold(workoutTable, exerciseTable, setTable) ==
    /\ \A e \in Range(exerciseTable) : \E w \in Range(workoutTable) : w.id = e.workoutId
    /\ \A x \in Range(setTable) : \E e \in Range(exerciseTable) : e.id = x.exerciseId

\* The helpers for exercises and sets as requests call them, after the
\* design document: create, update and delete, each scoped to the ancestor
\* workout, whose ownership check is part of the mutating statement.
ChildOps == {"createExercise", "updateExercise", "deleteExercise",
             "createExerciseSet", "updateExerciseSet", "deleteExerciseSet"}

\* The workout above the target of a child helper: of the workout id for
\* createExercise, of the exercise id for createExerciseSet and the exercise
\* helpers, of the set id for the set helpers.  <<>> when there is none.
Ancestor(workoutTable, exerciseTable, setTable, op, id) ==
    LET sets == IF op \in {"updateExerciseSet", "deleteExerciseSet"}
                THEN SelectRows(setTable, {x \in Range(setTable) : x.id = id})
                ELSE <<>>
        exerciseId == IF op \in {"updateExerciseSet", "deleteExerciseSet"}
                      THEN (IF sets = <<>> THEN 0 ELSE sets[1].exerciseId)
                      ELSE id
        found == IF op = "createExercise" THEN <<>>
                 ELSE SelectRows(exerciseTable,
                                 {e \in Range(exerciseTable) : e.id = exerciseId})
        workoutId == IF op = "createExercise" THEN id
                     ELSE IF found = <<>> THEN 0 ELSE found[1].workoutId
        hit == SelectRows(workoutTable, {w \in Range(workoutTable) : w.id = workoutId})
    IN  IF hit = <<>> THEN <<>> ELSE <<hit[1]>>

\* The ownership check that lets every identity through.
ChildAllowed_AnyOwner(ancestor, userId) == ancestor # <<>>

\* The parent workout passes the ownership check for the caller.
ChildAllowed(ancestor, userId) ==
    ancestor # <<>> /\ ancestor[1].userId = userId

CallChildHelper(r, session, op, id, order) ==
    /\ req[r].pc = "idle"
    /\ nextId.exercises + nextId.exerciseSets < MaxChildren
    /\ req' = [req EXCEPT ![r] = Frame(op, session, [id |-> id, order |-> order],
                                       "mutate")]
    /\ UNCHANGED <<workouts, exercises, exerciseSets, nextId>>

\* The helper's statement: it fails for a caller without identity, for a
\* target without ancestor and for an ancestor of another owner, and
\* otherwise inserts, updates or deletes the row, unless a foreign key of
\* db/schema.ts forbids it.
ChildHelperStep(r) ==
    /\ req[r].op \in ChildOps
    /\ req[r].pc = "mutate"
    /\ LET op == req[r].op
           id == req[r].args.id
           order == req[r].args.order
           ancestor == Ancestor(workouts, exercises, exerciseSets, op, id)
           target == IF op \in {"updateExercise", "deleteExercise"}
                     THEN SelectRows(exercises, {e \in Range(exercises) : e.id = id})
                     ELSE IF op \in {"updateExerciseSet", "deleteExerciseSet"}
                     THEN SelectRows(exerciseSets,
                                     {x \in Range(exerciseSets) : x.id = id})
                     ELSE IF op = "createExercise"
                     THEN <<ExerciseRow(nextId.exercises + 1, id, "Squat", order)>>
                     ELSE <<ExerciseSetRow(nextId.exerciseSets + 1, id, order,
                                           SetInput(order).reps,
                                           SetInput(order).weightKg,
                                           SetInput(order).restTimeSeconds)>>
           exercisesAfter ==
               IF op = "createExercise" THEN exercises \o target
               ELSE IF op = "updateExercise"
               THEN UpdateRows(exercises, Range(target), [order |-> order])
               ELSE IF op = "deleteExercise"
               THEN SelectRows(exercises, Range(exercises) \ Range(target))
               ELSE exercises
           setsAfter ==
               IF op = "createExerciseSet" THEN exerciseSets \o target
               ELSE IF op = "updateExerciseSet"
               THEN UpdateRows(exerciseSets, Range(target), [order |-> order])
               ELSE IF op = "deleteExerciseSet"
               THEN SelectRows(exerciseSets, Range(exerciseSets) \ Range(target))
               ELSE exerciseSets
           f == [req[r] EXCEPT !.queries = @ + 1, !.fetched = ancestor,
                               !.seen = workouts, !.userId = req[r].session]
       IN  IF req[r].session = NULL
           THEN /\ req' = [req EXCEPT ![r] = Throw(@, Error("Unauthorized"))]
                /\ UNCHANGED <<exercises, exerciseSets, nextId>>
           ELSE IF ancestor = <<>>
           THEN /\ req' = [req EXCEPT ![r] = Throw(f, Error("Not found"))]
                /\ UNCHANGED <<exercises, exerciseSets, nextId>>
           ELSE IF ~ChildAllowed(ancestor, req[r].session)
           THEN /\ req' = [req EXCEPT ![r] = Throw(f, Error("Forbidden"))]
                /\ UNCHANGED <<exercises, exerciseSets, nextId>>
           ELSE IF ~ForeignKeysHold(workouts, exercisesAfter, setsAfter)
           THEN /\ req' = [req EXCEPT ![r] =
                             Throw(f, Error("foreign key violation"))]
                /\ UNCHANGED <<exercises, exerciseSets, nextId>>
           ELSE /\ exercises' = exercisesAfter
                /\ exerciseSets' = setsAfter
                /\ nextId' = [nextId EXCEPT
                                 !.exercises = IF op = "createExercise"
                                               THEN @ + 1 ELSE @,
                                 !.exerciseSets = IF op = "createExerciseSet"
                                                  THEN @ + 1 ELSE @]
                /\ req' = [req EXCEPT ![r] =
                             [f EXCEPT !.pc = "done", !.affected = target,
                                       !.result = Void]]
    /\ UNCHANGED workouts

\* const { userId } = await auth(); if (!userId) throw new Error("Unauthorized");
AuthStep(r) ==
    /\ req[r].pc = "auth"
    /\ req' = [req EXCEPT ![r] =
                 IF req[r].session = NULL THEN Throw(@, Error("Unauthorized"))
                 ELSE [@ EXCEPT !.userId = req[r].session, !.pc = "select"]]
    /\ UNCHANGED <<workouts, exercises, exerciseSets, nextId>>

\* The helper with its write ahead of the ownership check: the row of
\* another owner is written, then Forbidden is thrown.
SelectExistingStep_WriteFirst(r) ==
    /\ req[r].op \in {"updateWorkoutHelper", "deleteWorkoutHelper"}
    /\ req[r].pc = "select"
    /\ LET id == req[r].args.workoutId
           hit == SelectRows(workouts, {w \in Range(workouts) : w.id = id})
           existing == IF hit = <<>> THEN <<>> ELSE <<hit[1]>>
           f == [req[r] EXCEPT !.fetched = existing, !.queries = @ + 1]
           written == IF req[r].op = "deleteWorkoutHelper"
                      THEN SelectRows(workouts, {w \in Range(workouts) : w.id # id})
                      ELSE UpdateRows(workouts, {w \in Range(workouts) : w.id = id},
                                      req[r].args.data)
       IN  /\ req' = [req EXCEPT ![r] =
                        IF existing = <<>> THEN Throw(f, Error("Workout not found"))
                        ELSE IF existing[1].userId # req[r].userId
                             THEN Throw(f, Error("Forbidden"))
                             ELSE [f EXCEPT !.pc = "mutate"]]
           /\ workouts' = IF existing # <<>> /\ existing[1].userId # req[r].userId
                             /\ ForeignKeysHold(written, exercises, exerciseSets)
                          THEN written ELSE workouts
    /\ UNCHANGED <<exercises, exerciseSets, nextId>>

\* const existing = await db.select().from(workouts).where(eq(workouts.id,
\* workoutId)).limit(1); if (!existing[0]) throw new Error("Workout not
\* found"); if (existing[0].userId !== userId) throw new Error("Forbidden");
SelectExistingStep(r) ==
    /\ req[r].op \in {"updateWorkoutHelper", "deleteWorkoutHelper"}
    /\ req[r].pc = "select"
    /\ LET hit == SelectRows(workouts,
                          {w \in Range(workouts) : w.id = req[r].args.workoutId})
           existing == IF hit = <<>> THEN <<>> ELSE <<hit[1]>>
           f == [req[r] EXCEPT !.fetched = existing, !.queries = @ + 1]
       IN  req' = [req EXCEPT ![r] =
                     IF existing = <<>> THEN Throw(f, Error("Workout not found"))
                     ELSE IF existing[1].userId # req[r].userId
                          THEN Throw(f, Error("Forbidden"))
                          ELSE [f EXCEPT !.pc = "mutate"]]
    /\ UNCHANGED <<workouts, exercises, exerciseSets, nextId>>

CallUpdateWorkoutHelper(r, session, workoutId, data) ==
    /\ req[r].pc = "idle"
    /\ req' = [req EXCEPT ![r] = Frame("updateWorkoutHelper", session,
                                       [workoutId |-> workoutId, data |-> data], "auth")]
    /\ UNCHANGED <<workouts, exercises, exerciseSets, nextId>>

\* const [updated] = await db.update(workouts).set(data).where(eq(workouts.id,
\* workoutId)).returning(); return updated;
UpdateWorkoutHelperStep(r) ==
    /\ req[r].op = "updateWorkoutHelper"
    /\ req[r].pc = "mutate"
    /\ LET id == req[r].args.workoutId
           hit == SelectRows(workouts, {w \in Range(workouts) : w.id = id})
           after == UpdateRows(workouts, {w \in Range(workouts) : w.id = id},
                               req[r].args.data)
           returning == SelectRows(after, {w \in Range(after) : w.id = id})
       IN  IF ~IntegerColumnTakes(req[r].args.data)
           THEN /\ workouts' = workouts
                /\ req' = [req EXCEPT ![r] =
                             Throw([@ EXCEPT !.queries = @ + 1],
                                   Error("invalid input syntax for type integer"))]
           ELSE /\ workouts' = after
                /\ req' = [req EXCEPT ![r] =
                             [@ EXCEPT !.pc = "done", !.queries = @ + 1,
                                       !.affected = hit,
                                       !.result = IF returning = <<>> THEN Undefined
                                                  ELSE [tag |-> "workout",
                                                        workout |-> returning[1]]]]
    /\ UNCHANGED <<exercises, exerciseSets, nextId>>

\* The update schema without positive() on the duration.
updateWorkoutSchema_NoPositive(raw) ==
    LET name == IF raw.name = NULL
                THEN <<Issue("name", "Expected string, received null")>>
                ELSE IF Len(raw.name) < 1
                     THEN <<Issue("name", "String must contain at least 1 character(s)")>>
                     ELSE IF Len(raw.name) > MaxNameLength
                          THEN <<Issue("name",
                                       "String must contain at most 100 character(s)")>>
                          ELSE <<>>
        description == IF raw.description = NULL
                       THEN <<Issue("description", "Expected string, received null")>>
                       ELSE <<>>
    IN  name \o description

\* updateWorkoutSchema.safeParse(rawData).error.errors: name, description
\* and durationMinutes are each optional, which lets undefined through and
\* not the null of a field the form lacks.
updateWorkoutSchema(raw) ==
    LET name == IF raw.name = NULL
                THEN <<Issue("name", "Expected string, received null")>>
                ELSE IF Len(raw.name) < 1
                     THEN <<Issue("name", "String must contain at least 1 character(s)")>>
                     ELSE IF Len(raw.name) > MaxNameLength
                          THEN <<Issue("name",
                                       "String must contain at most 100 character(s)")>>
                          ELSE <<>>
        description == IF raw.description = NULL
                       THEN <<Issue("description", "Expected string, received null")>>
                       ELSE <<>>
        durationMinutes == IF "durationMinutes" \in DOMAIN raw /\ raw.durationMinutes <= 0
                           THEN <<Issue("durationMinutes",
                                        "Number must be greater than 0")>>
                           ELSE <<>>
    IN  name \o description \o durationMinutes

\* rawData as updateWorkoutAction reads it off the form.
UpdateRawInputs ==
    LET base == [name : {"", "Push Day"}, description : {NULL, "Heavy"}]
    IN  base \cup {[f \in DOMAIN b \cup {"durationMinutes"} |->
                       IF f = "durationMinutes" THEN d ELSE b[f]] :
                   b \in base, d \in {0 - Minutes(5), 0, 15, Minutes(45)}}

\* updateWorkoutAction(workoutId, formData): safeParse, return { error } with
\* the first issue, else await updateWorkoutHelper(workoutId, result.data),
\* whose statements the request goes on to run.
CallUpdateWorkoutAction(r, session, workoutId, raw) ==
    /\ req[r].pc = "idle"
    /\ LET errors == updateWorkoutSchema(raw)
       IN  req' = [req EXCEPT ![r] =
                     IF errors # <<>>
                     THEN [Frame("updateWorkoutAction", session,
                                 [workoutId |-> workoutId, raw |-> raw], "done")
                           EXCEPT !.result = [error |-> errors[1].message]]
                     ELSE Frame("updateWorkoutHelper", session,
                                [workoutId |-> workoutId, raw |-> raw, data |-> raw],
                                "auth")]
    /\ UNCHANGED <<workouts, exercises, exerciseSets, nextId>>

CallDeleteWorkoutHelper(r, session, workoutId) ==
    /\ req[r].pc = "idle"
    /\ req' = [req EXCEPT ![r] = Frame("deleteWorkoutHelper", session,
                                       [workoutId |-> workoutId], "auth")]
    /\ UNCHANGED <<workouts, exercises, exerciseSets, nextId>>

\* await db.delete(workouts).where(eq(workouts.id, workoutId));
DeleteWorkoutHelperStep(r) ==
    /\ req[r].op = "deleteWorkoutHelper"
    /\ req[r].pc = "mutate"
    /\ LET id == req[r].args.workoutId
           hit == SelectRows(workouts, {w \in Range(workouts) : w.id = id})
           after == SelectRows(workouts, {w \in Range(workouts) : w.id # id})
       IN  IF ForeignKeysHold(after, exercises, exerciseSets)
           THEN /\ workouts' = after
                /\ req' = [req EXCEPT ![r] =
                             [@ EXCEPT !.pc = "done", !.queries = @ + 1,
                                       !.affected = hit, !.result = Void]]
           ELSE /\ workouts' = workouts
                /\ req' = [req EXCEPT ![r] =
                             [@ EXCEPT !.pc = "done", !.queries = @ + 1,
                                       !.result = Error("foreign key violation")]]
    /\ UNCHANGED <<exercises, exerciseSets, nextId>>

\* docs/data-mutation.md, "Error Handling": deleteWorkoutHelper with its
\* statements inside try { } catch (error) { console.error(...); throw error; }
\* and return { success: true } at the end of the try block.
Success == [success |-> TRUE]

\* A catch block that swallows the error and reports success.
Catch_Swallow(f, error) == [f EXCEPT !.pc = "done", !.result = Success]

\* catch (error) { console.error("Failed to delete workout:", error);
\* throw error; }
Catch(f, error) ==
    [f EXCEPT !.pc = "done", !.result = error, !.log = Append(@, error)]

CallDeleteWorkoutHelperTry(r, session, workoutId) ==
    /\ req[r].pc = "idle"
    /\ req' = [req EXCEPT ![r] = Frame("deleteWorkoutHelper/try", session,
                                       [workoutId |-> workoutId], "auth")]
    /\ UNCHANGED <<workouts, exercises, exerciseSets, nextId>>

\* try { const existing = await db.select()...limit(1); if (!existing[0])
\* throw new Error("Workout not found"); if (existing[0].userId !== userId)
\* throw new Error("Forbidden: Access denied");  The SELECT itself fails
\* when fails holds (the store is unreachable).
TrySelectExistingStep(r, fails) ==
    /\ req[r].op = "deleteWorkoutHelper/try"
    /\ req[r].pc = "select"
    /\ LET hit == SelectRows(workouts,
                          {w \in Range(workouts) : w.id = req[r].args.workoutId})
           existing == IF hit = <<>> THEN <<>> ELSE <<hit[1]>>
           f == [req[r] EXCEPT !.fetched = existing, !.queries = @ + 1]
           down == [req[r] EXCEPT !.queries = @ + 1,
                                  !.failed = Append(@, Error("connection failure"))]
       IN  req' = [req EXCEPT ![r] =
                     IF fails THEN Catch(down, Error("connection failure"))
                     ELSE IF existing = <<>>
                          THEN Catch(f, Error("Workout not found"))
                     ELSE IF existing[1].userId # req[r].userId
                          THEN Catch(f, Error("Forbidden: Access denied"))
                     ELSE [f EXCEPT !.pc = "mutate"]]
    /\ UNCHANGED <<workouts, exercises, exerciseSets, nextId>>

\* await db.delete(workouts).where(eq(workouts.id, workoutId));
\* return { success: true };  The DELETE fails when the store is unreachable
\* and when a foreign key forbids it.
TryDeleteStep(r, fails) ==
    /\ req[r].op = "deleteWorkoutHelper/try"
    /\ req[r].pc = "mutate"
    /\ LET id == req[r].args.workoutId
           hit == SelectRows(workouts, {w \in Range(workouts) : w.id = id})
           after == SelectRows(workouts, {w \in Range(workouts) : w.id # id})
           error == IF fails THEN Error("connection failure")
                    ELSE Error("foreign key violation")
           f == [req[r] EXCEPT !.queries = @ + 1]
       IN  IF ~fails /\ ForeignKeysHold(after, exercises, exerciseSets)
           THEN /\ workouts' = after
                /\ req' = [req EXCEPT ![r] =
                             [f EXCEPT !.pc = "done", !.affected = hit,
                                       !.result = Success]]
           ELSE /\ workouts' = workouts
                /\ req' = [req EXCEPT ![r] =
                             Catch([f EXCEPT !.failed = Append(@, error)], error)]
    /\ UNCHANGED <<exercises, exerciseSets, nextId>>

\* redirect(to) does not return: it throws the framework's redirect signal,
\* an Error whose message is "NEXT_REDIRECT" and whose digest carries the
\* target.
Redirect(to) == [tag |-> "Error", message |-> "NEXT_REDIRECT", digest |-> to]

\* catch (error) { return { error: error instanceof Error ? error.message
\* : "Failed to delete workout" }; }
ActionCatch(thrown) ==
    [error |-> IF thrown.tag = "Error" THEN thrown.message
               ELSE "Failed to delete workout"]

\* deleteWorkoutAction(workoutId): try { await deleteWorkoutHelper(workoutId);
\* revalidatePath("/workouts"); redirect("/workouts"); } catch (error) {...}.
\* The helper is the one of the complete example: auth(), SELECT by id, the
\* two checks, DELETE by id.  Everything thrown inside the try block, the
\* redirect signal included, reaches the catch block.
deleteWorkoutAction(r, session, workoutId) ==
    /\ req[r].pc = "idle"
    /\ LET hit == SelectRows(workouts, {w \in Range(workouts) : w.id = workoutId})
           existing == IF hit = <<>> THEN <<>> ELSE <<hit[1]>>
           after == SelectRows(workouts, {w \in Range(workouts) : w.id # workoutId})
           thrown == IF session = NULL THEN <<Error("Unauthorized")>>
                     ELSE IF existing = <<>> THEN <<Error("Workout not found")>>
                     ELSE IF existing[1].userId # session THEN <<Error("Forbidden")>>
                     ELSE IF ~ForeignKeysHold(after, exercises, exerciseSets)
                          THEN <<Error("foreign key violation")>>
                     ELSE <<>>
           f == [Frame("deleteWorkoutAction", session, [workoutId |-> workoutId],
                       "done")
                 EXCEPT !.userId = session, !.fetched = existing,
                        !.seen = workouts, !.failed = thrown,
                        !.queries = IF session = NULL THEN 0
                                    ELSE IF thrown = <<>> \/ thrown[1].message =
                                                          "foreign key violation"
                                         THEN 2 ELSE 1]
       IN  IF thrown # <<>>
           THEN /\ workouts' = workouts
                /\ req' = [req EXCEPT ![r] =
                             [f EXCEPT !.result = ActionCatch(thrown[1])]]
           ELSE /\ workouts' = after
                /\ req' = [req EXCEPT ![r] =
                             [f EXCEPT !.affected = hit,
                                       !.result = ActionCatch(Redirect("/workouts"))]]
    /\ UNCHANGED <<exercises, exerciseSets, nextId>>

\* docs/data-fetching.md, updateWorkout(id, data: Partial<Workout>): auth();
\* a single UPDATE ... WHERE id = id AND userId = userId.  The throw for a
\* missing identity leaves the store as it is.
updateWorkout(session, id, data) ==
    /\ session # NULL
    /\ \E w \in Range(workouts) : w.id = id /\ w.userId = session
    /\ workouts' = UpdateRows(workouts,
                            {w \in Range(workouts) : w.id = id /\ w.userId = session},
                            data)
    /\ workouts' # workouts
    /\ UNCHANGED <<exercises, exerciseSets, nextId, req>>

(***************************************************************************)
(* Specifications.                                                         *)
(***************************************************************************)
Init ==
    /\ workouts = <<>>
    /\ exercises = <<>>
    /\ exerciseSets = <<>>
    /\ nextId = [workouts |-> 0, exercises |-> 0, exerciseSets |-> 0]
    /\ req = [r \in Requests |-> Idle]

\* The dashboard's list read against a store that users fill.
NextList ==
    \/ \E u \in Users, d \in ListInputs : createWorkoutHelper(u, d)
    \/ \E s \in Sessions, f \in Filters : CallGetWorkouts("r1", s, f)
    \/ AuthClientStep("r1")
    \/ GetWorkoutsStep("r1")
    \/ Return("r1")

SpecList == Init /\ [][NextList]_vars

\* The reads of data/workouts.ts against a store that users fill with
\* workouts, exercises and sets.
Next ==
    \/ \E u \in Users, d \in DetailInputs : createWorkoutHelper(u, d)
    \/ \E u \in Users, w \in WorkoutIds, o \in Orders : createExercise(u, w, o)
    \/ \E u \in Users, e \in ChildIds, o \in Orders : createExerciseSet(u, e, o)
    \/ \E s \in Sessions, w \in WorkoutIds :
          CallGetWorkoutWithExercisesAndSets("r1", s, w)
    \/ \E s \in Sessions : CallGetWorkouts("r1", s, <<>>)
    \/ AuthClientStep("r1")
    \/ GetWorkoutWithExercisesAndSetsStep("r1")
    \/ GetWorkoutsStep("r1")
    \/ Return("r1")

Spec == Init /\ [][Next]_vars

\* The mutation helpers, two requests at a time.
NextMutate ==
    \/ \E u \in Users, d \in DetailInputs : createWorkoutHelper(u, d)
    \/ \E u \in Users, o \in {0} : createExercise(u, 1, o)
    \/ \E u \in Users, w \in 1..MaxWorkouts, d \in OwnerInputs : updateWorkout(u, w, d)
    \/ \E r \in Requests, s \in Sessions, w \in 1..MaxWorkouts, d \in UpdateInputs :
          CallUpdateWorkoutHelper(r, s, w, d)
    \/ \E r \in Requests, s \in Sessions, w \in 1..MaxWorkouts :
          CallDeleteWorkoutHelper(r, s, w)
    \/ \E r \in Requests : AuthStep(r)
    \/ \E r \in Requests : SelectExistingStep(r)
    \/ \E r \in Requests : UpdateWorkoutHelperStep(r)
    \/ \E r \in Requests : DeleteWorkoutHelperStep(r)
    \/ \E r \in Requests : Return(r)

SpecMutate == Init /\ [][NextMutate]_vars

\* updateWorkoutHelper called by two requests at a time with different names.
NextRace ==
    \/ \E u \in Users, d \in DetailInputs : createWorkoutHelper(u, d)
    \/ \E r \in Requests, u \in Users, w \in 1..MaxWorkouts, d \in RaceInputs :
          CallUpdateWorkoutHelper(r, u, w, d)
    \/ \E r \in Requests : AuthStep(r)
    \/ \E r \in Requests : SelectExistingStep(r)
    \/ \E r \in Requests : UpdateWorkoutHelperStep(r)
    \/ \E r \in Requests : Return(r)

SpecRace == Init /\ [][NextRace]_vars

\* The read helpers that take the identity as a parameter.
NextParam ==
    \/ \E u \in Users, d \in ListInputs : createWorkoutHelper(u, d)
    \/ \E u \in Users : createExercise(u, 1, 0)
    \/ \E u \in UserIdParams, f \in Filters : CallGetWorkoutsOf("r1", u, f)
    \/ \E u \in UserIdParams, w \in WorkoutIds :
          CallGetWorkoutWithExercisesAndSetsOf("r1", w, u)
    \/ GetWorkoutsOfStep("r1")
    \/ GetWorkoutWithExercisesAndSetsOfStep("r1")
    \/ Return("r1")

SpecParam == Init /\ [][NextParam]_vars

\* Workouts, exercises and sets created, and workouts deleted.
NextOrphans ==
    \/ \E u \in Users, d \in DetailInputs : createWorkoutHelper(u, d)
    \/ \E u \in Users, w \in WorkoutIds, o \in Orders : createExercise(u, w, o)
    \/ \E u \in Users, e \in ChildIds, o \in Orders : createExerciseSet(u, e, o)
    \/ \E s \in Sessions, w \in WorkoutIds : CallDeleteWorkoutHelper("r1", s, w)
    \/ AuthStep("r1")
    \/ SelectExistingStep("r1")
    \/ DeleteWorkoutHelperStep("r1")
    \/ Return("r1")

SpecOrphans == Init /\ [][NextOrphans]_vars

\* Exercises and sets created, updated and deleted under the workouts of two
\* identities.
NextChildren ==
    \/ \E u \in Users, d \in DetailInputs : createWorkoutHelper(u, d)
    \/ \E s \in Sessions, op \in ChildOps, id \in ChildIds, o \in Orders :
          CallChildHelper("r1", s, op, id, o)
    \/ ChildHelperStep("r1")
    \/ Return("r1")

SpecChildren == Init /\ [][NextChildren]_vars

\* Deletes through the helper that logs and rethrows, against a store whose
\* statements can fail.
NextFailure ==
    \/ \E u \in Users, d \in DetailInputs : createWorkoutHelper(u, d)
    \/ \E u \in Users, w \in WorkoutIds, o \in Orders : createExercise(u, w, o)
    \/ \E s \in Sessions, w \in WorkoutIds : CallDeleteWorkoutHelperTry("r1", s, w)
    \/ AuthStep("r1")
    \/ \E fails \in BOOLEAN : TrySelectExistingStep("r1", fails)
    \/ \E fails \in BOOLEAN : TryDeleteStep("r1", fails)
    \/ Return("r1")

SpecFailure == Init /\ [][NextFailure]_vars

\* Deletes through the server action.
NextAction ==
    \/ \E u \in Users, d \in DetailInputs : createWorkoutHelper(u, d)
    \/ \E u \in Users, w \in WorkoutIds, o \in Orders : createExercise(u, w, o)
    \/ \E s \in Sessions, w \in WorkoutIds : deleteWorkoutAction("r1", s, w)
    \/ Return("r1")

SpecAction == Init /\ [][NextAction]_vars

\* Creates and updates through the server actions.
NextValidate ==
    \/ \E s \in Sessions, raw \in RawInputs : CallCreateWorkoutAction("r1", s, raw)
    \/ CreateWorkoutHelperStep("r1")
    \/ \E s \in Sessions, w \in WorkoutIds, raw \in UpdateRawInputs :
          CallUpdateWorkoutAction("r1", s, w, raw)
    \/ AuthStep("r1")
    \/ SelectExistingStep("r1")
    \/ UpdateWorkoutHelperStep("r1")
    \/ Return("r1")

SpecValidate == Init /\ [][NextValidate]_vars

\* Updates and deletes by the owner, by another identity and by nobody.
NextReject ==
    \/ \E u \in Users, d \in DetailInputs : createWorkoutHelper(u, d)
    \/ \E u \in Users : createExercise(u, 1, 0)
    \/ \E s \in Sessions, w \in WorkoutIds, d \in UpdateInputs :
          CallUpdateWorkoutHelper("r1", s, w, d)
    \/ \E s \in Sessions, w \in WorkoutIds : CallDeleteWorkoutHelper("r1", s, w)
    \/ AuthStep("r1")
    \/ SelectExistingStep("r1")
    \/ UpdateWorkoutHelperStep("r1")
    \/ DeleteWorkoutHelperStep("r1")
    \/ Return("r1")

SpecReject == Init /\ [][NextReject]_vars

\* The dashboard asked for by browsers in several time zones.
NextDashboard ==
    \/ \E d \in DashboardInputs : createWorkoutHelper("user_1", d)
    \/ \E s \in Sessions, dateParam \in DateParams, timezone \in Timezones :
          CallDashboardPage("r1", s, dateParam, timezone)
    \/ \E now \in Instants, serverOffset \in Offsets :
          DashboardPageStep("r1", now, serverOffset)
    \/ AuthClientStep("r1")
    \/ GetWorkoutsStep("r1")
    \/ Return("r1")

SpecDashboard == Init /\ [][NextDashboard]_vars

\* The read helpers of both generations, called by the same identities.
NextGenerations ==
    \/ \E u \in Users, d \in {1, MaxDate} :
          createWorkoutHelper(u, [name |-> "Leg Day", date |-> d])
    \/ \E u \in Users : createExercise(u, 1, 0)
    \/ \E u \in Users, f \in {<<>>, [startDate |-> 1, endDate |-> MaxDate]} :
          CallGetWorkouts("r1", u, f)
    \/ \E u \in Users, w \in WorkoutIds :
          CallGetWorkoutWithExercisesAndSets("r1", u, w)
    \/ AuthClientStep("r1")
    \/ GetWorkoutsStep("r1")
    \/ GetWorkoutWithExercisesAndSetsStep("r1")
    \/ \E u \in Users, f \in {<<>>, [startDate |-> 1, endDate |-> MaxDate]} :
          CallGetWorkoutsOf("r1", u, f)
    \/ \E u \in Users, w \in WorkoutIds :
          CallGetWorkoutWithExercisesAndSetsOf("r1", w, u)
    \/ GetWorkoutsOfStep("r1")
    \/ GetWorkoutWithExercisesAndSetsOfStep("r1")
    \/ Return("r1")

SpecGenerations == Init /\ [][NextGenerations]_vars

\* Workouts created through the action and through the helper, and the list
\* read.
NextCreate ==
    \/ \E s \in Sessions, raw \in RawInputs : CallCreateWorkoutAction("r1", s, raw)
    \/ \E s \in Sessions, d \in HelperInputs : CallCreateWorkoutHelper("r1", s, d)
    \/ CreateWorkoutHelperStep("r1")
    \/ \E s \in Sessions : CallGetWorkouts("r2", s, <<>>)
    \/ AuthClientStep("r2")
    \/ GetWorkoutsStep("r2")
    \/ \E r \in Requests : Return(r)

SpecCreate == Init /\ [][NextCreate]_vars

\* Requests of several identities, each calling the read helpers one after
\* another.
NextRequest ==
    \/ \E u \in Users, d \in DetailInputs : createWorkoutHelper(u, d)
    \/ \E r \in Requests, s \in Sessions : CallGetWorkouts(r, s, <<>>)
    \/ \E r \in Requests, s \in Sessions :
          CallGetWorkoutWithExercisesAndSets(r, s, 1)
    \/ \E r \in Requests : ThenGetWorkouts(r, <<>>)
    \/ \E r \in Requests : ThenGetWorkoutWithExercisesAndSets(r, 1)
    \/ \E r \in Requests : AuthClientStep(r)
    \/ \E r \in Requests : GetWorkoutsStep(r)
    \/ \E r \in Requests : GetWorkoutWithExercisesAndSetsStep(r)
    \/ \E r \in Requests : Return(r)

SpecRequest == Init /\ [][NextRequest]_vars

(***************************************************************************)
(* Properties.                                                             *)
(***************************************************************************)
ListCalls == {r \in Requests : req[r].op = "getWorkouts" /\ req[r].result.tag = "rows"}

DetailCalls == {r \in Requests : /\ req[r].op = "getWorkoutWithExercisesAndSets"
                                 /\ req[r].pc = "done"}

\* A date satisfies a filter: not before its startDate, before its endDate.
InRange(filter, date) ==
    /\ "startDate" \in DOMAIN filter => date >= filter.startDate
    /\ "endDate" \in DOMAIN filter => date < filter.endDate

\* C1: ownership isolation of the list read.  Whatever the store holds, the
\* rows getWorkouts returns to a caller never include a workout owned by
\* another identity, with or without a date filter: neither in the answer a
\* request received nor in the answer any identity would get in this state.
C1_ListOwnershipIsolation ==
    /\ \A r \in ListCalls :
          \A w \in Range(req[r].seen) :
             w.userId # req[r].session => w \notin Range(req[r].result.rows)
    /\ \A b \in Users, f \in Filters :
          \A w \in Range(workouts) :
             w.userId # b => w \notin Range(GetWorkoutsQuery(workouts, b, f))

\* C1 witness: a caller received a non-empty list while the table it read
\* also held a workout of another identity.
C1_Witness ==
    \E r \in ListCalls :
       /\ req[r].result.rows # <<>>
       /\ \E w \in Range(req[r].seen) : w.userId # req[r].session

\* C8: the date range is half-open.  With both startDate and endDate given, a
\* workout of the caller is returned if and only if startDate <= date <
\* endDate.
C8_HalfOpenDateRange ==
    \A r \in ListCalls :
       LET f == req[r].args.filter
       IN  ("startDate" \in DOMAIN f /\ "endDate" \in DOMAIN f) =>
              \A w \in Range(req[r].seen) :
                 w.userId = req[r].session =>
                    (w \in Range(req[r].result.rows)
                        <=> (f.startDate <= w.date /\ w.date < f.endDate))

\* C8 witness: the table read held a workout of the caller dated exactly
\* startDate, which was returned, and one dated exactly endDate, which was
\* not.
C8_Witness ==
    \E r \in ListCalls :
       LET f == req[r].args.filter
       IN  /\ "startDate" \in DOMAIN f /\ "endDate" \in DOMAIN f
           /\ \E a, b \in Range(req[r].seen) :
                 /\ a.userId = req[r].session /\ b.userId = req[r].session
                 /\ a.date = f.startDate /\ b.date = f.endDate
                 /\ a \in Range(req[r].result.rows)
                 /\ b \notin Range(req[r].result.rows)

\* C9: getWorkouts returns the caller's complete matching set, each row once,
\* ordered by date descending.
C9_CompleteAndNewestFirst ==
    \A r \in ListCalls :
       LET rows == req[r].result.rows
           matching == {w \in Range(req[r].seen) :
                           /\ w.userId = req[r].session
                           /\ InRange(req[r].args.filter, w.date)}
       IN  /\ Range(rows) = matching
           /\ Len(rows) = Cardinality(matching)
           /\ \A i \in 1..(Len(rows) - 1) : rows[i].date >= rows[i + 1].date

\* C9 witness: the caller's rows were stored oldest first and returned newest
\* first.
C9_Witness ==
    \E r \in ListCalls :
       LET rows == req[r].result.rows
           seen == req[r].seen
       IN  /\ Len(rows) >= 2
           /\ rows[1].date > rows[2].date
           /\ \E i, j \in DOMAIN seen :
                 i < j /\ seen[i] = rows[2] /\ seen[j] = rows[1]

\* C2: a workout that exists under owner A is never handed to another
\* identity B: B's detail read of its id throws ForbiddenError, which carries
\* no part of the workout, its exercises or its sets.
C2_DetailForbiddenForOthers ==
    \A r \in DetailCalls :
       req[r].session \in Users =>
          \A w \in Range(req[r].seen) :
             (w.id = req[r].args.workoutId /\ w.userId # req[r].session)
                => req[r].result = Forbidden

\* C2 witness: the read of another identity's workout, which had an exercise
\* with a set, threw ForbiddenError.
C2_Witness ==
    \E r \in DetailCalls :
       /\ req[r].result = Forbidden
       /\ req[r].fetched # <<>>
       /\ req[r].fetched[1].userId # req[r].session
       /\ \E i \in DOMAIN req[r].fetched[1].exercises :
             req[r].fetched[1].exercises[i].sets # <<>>

\* C3: the detail read keeps its two failure causes apart.  An id that
\* matches no row gives undefined; ForbiddenError is thrown only when a row
\* with that id exists and its owner is not the caller.
C3_NotFoundIsNotForbidden ==
    \A r \in DetailCalls :
       req[r].session \in Users =>
          LET rows == {w \in Range(req[r].seen) : w.id = req[r].args.workoutId}
          IN  /\ rows = {} => req[r].result = Undefined
              /\ req[r].result = Forbidden
                    => \E w \in rows : w.userId # req[r].session

\* C3 witness: a read of an id that matched none of the rows stored returned
\* undefined.
C3_Witness ==
    \E r \in DetailCalls :
       /\ req[r].session \in Users
       /\ req[r].seen # <<>>
       /\ \A w \in Range(req[r].seen) : w.id # req[r].args.workoutId
       /\ req[r].result = Undefined

\* C4: the identity gate fails closed.  A helper called without an identity
\* in the session ends with UnauthorizedError before it has issued any
\* query, and UnauthorizedError is thrown for no other reason: a call with an
\* identity passes the gate with that identity.
C4_GateFailsClosed ==
    \A r \in Requests :
       req[r].op \in {"getWorkouts", "getWorkoutWithExercisesAndSets"} =>
          /\ (req[r].session = NULL /\ req[r].pc # "authClient")
                => /\ req[r].pc = "done"
                   /\ req[r].result = Unauthorized
                   /\ req[r].queries = 0
          /\ req[r].result = Unauthorized => req[r].session = NULL
          /\ (req[r].session # NULL /\ req[r].pc # "authClient")
                => req[r].userId = req[r].session

\* C4 witness: a detail read without identity, of a workout that is stored,
\* ended with UnauthorizedError.
C4_Witness ==
    \E r \in Requests :
       /\ req[r].op = "getWorkoutWithExercisesAndSets"
       /\ req[r].result = Unauthorized
       /\ \E w \in Range(workouts) : w.id = req[r].args.workoutId

MutationCalls == {r \in Requests :
                     req[r].op \in {"updateWorkoutHelper", "deleteWorkoutHelper"}}

\* C5: the mutating statement of updateWorkoutHelper and deleteWorkoutHelper
\* is scoped by the caller's identity: every row its UPDATE or DELETE hits is
\* owned by the caller when the statement runs, whatever other requests did
\* since the helper's SELECT.
C5_MutationScopedByIdentity ==
    \A r \in MutationCalls :
       \A i \in DOMAIN req[r].affected : req[r].affected[i].userId = req[r].userId

\* C6: updateWorkoutHelper has exactly three outcomes, decided by the row it
\* fetched: no row, "Workout not found"; a row of another owner, "Forbidden";
\* otherwise the update is applied and the updated record returned.
C6_UpdateHasThreeOutcomes ==
    \A r \in Requests :
       (req[r].op = "updateWorkoutHelper" /\ req[r].pc = "done"
           /\ req[r].session \in Users) =>
          IF req[r].fetched = <<>> THEN req[r].result = Error("Workout not found")
          ELSE IF req[r].fetched[1].userId # req[r].userId
               THEN req[r].result = Error("Forbidden")
               ELSE /\ req[r].result.tag = "workout"
                    /\ req[r].result.workout.id = req[r].args.workoutId
                    /\ \A f \in DOMAIN req[r].args.data :
                          req[r].result.workout[f] = req[r].args.data[f]

\* C7: cascade integrity.  Once the owner's deleteWorkoutHelper(W) has run,
\* the store holds neither W nor an exercise of W nor a set of such an
\* exercise, and a detail read of W finds nothing; also for a W that had
\* exercises when it was deleted.
C7_DeleteCascades ==
    \A r \in Requests :
       (req[r].op = "deleteWorkoutHelper" /\ req[r].pc = "done"
           /\ req[r].fetched # <<>> /\ req[r].fetched[1].userId = req[r].userId) =>
          LET id == req[r].args.workoutId
          IN  /\ \A w \in Range(workouts) : w.id # id
              /\ \A e \in Range(exercises) : e.workoutId # id
              /\ \A x \in Range(exerciseSets) :
                    \A e \in Range(exercises) : e.id = x.exerciseId => e.workoutId # id
              /\ FindFirstWorkout(workouts, exercises, exerciseSets, id) = <<>>

\* Ascending by the order column.
SortedByOrder(rows) == \A i \in 1..(Len(rows) - 1) : rows[i].order <= rows[i + 1].order

\* C10: the detail read returns the workout's exercises ascending by order
\* and each exercise's sets ascending by order, whatever order they were
\* inserted in.
C10_DetailChildrenSorted ==
    \A r \in DetailCalls :
       req[r].result.tag = "workout" =>
          LET ex == req[r].result.workout.exercises
          IN  /\ SortedByOrder(ex)
              /\ \A i \in DOMAIN ex : SortedByOrder(ex[i].sets)

\* The requests that have called a helper of data/workouts.ts.
ReadRequests == {r \in Requests :
                    req[r].op \in {"getWorkouts", "getWorkoutWithExercisesAndSets"}}

\* C16: identity memoization.  Within one request, however many helpers call
\* authClient, auth() runs at most once, and every call hands its helper the
\* same identity.
C16_IdentityDerivedOnce ==
    \A r \in ReadRequests :
       /\ req[r].derived <= 1
       /\ \A i, j \in DOMAIN req[r].identities :
             req[r].identities[i] = req[r].identities[j]

\* C16 witness: a request whose second helper has passed authClient.
C16_Witness ==
    \E r \in ReadRequests :
       /\ req[r].helpers >= 2
       /\ Len(req[r].identities) >= 2
       /\ req[r].session \in Users
       /\ req[r].derived = 1

\* C17: the memoized identity does not leak across requests.  Whatever other
\* requests are in flight and whatever they have resolved, every identity
\* authClient hands out in a request is the one of that request's session.
C17_NoLeakAcrossRequests ==
    \A r \in ReadRequests :
       /\ \A i \in DOMAIN req[r].identities : req[r].identities[i] = req[r].session
       /\ req[r].pc \in {"query", "done"} /\ req[r].result # Unauthorized
             => req[r].userId = req[r].session

\* C17 witness: two requests of different identities in flight, each past
\* authClient with its cache entry filled.
C17_Witness ==
    \E r, q \in ReadRequests :
       /\ req[r].session \in Users /\ req[q].session \in Users
       /\ req[r].session # req[q].session
       /\ req[r].cache # <<>> /\ req[q].cache # <<>>
       /\ req[r].pc = "query" /\ req[q].pc = "query"

\* C11: validation rejection.  createWorkoutAction with an empty name throws
\* the error of the name field's issue before it has issued any statement:
\* no row with that name enters the store, and no list read shows one.
C11_EmptyNameRejected ==
    /\ \A r \in Requests :
          (req[r].op = "createWorkoutAction" /\ req[r].args.raw.name = "") =>
             /\ req[r].pc = "done"
             /\ req[r].result.tag = "Error"
             /\ \E i \in DOMAIN createWorkoutSchema(req[r].args.raw) :
                   /\ createWorkoutSchema(req[r].args.raw)[i].path = "name"
                   /\ createWorkoutSchema(req[r].args.raw)[i].message
                         = req[r].result.message
             /\ req[r].result.message \notin
                   {"Unauthorized", "Expected string, received null",
                    "Duration must be positive",
                    "Cannot create workout in the future"}
             /\ req[r].queries = 0
    /\ \A w \in Range(workouts) : w.name # ""
    /\ \A r \in ListCalls : \A w \in Range(req[r].result.rows) : w.name # ""

\* C11 witness: an identity's action with an empty name and every other
\* field valid was rejected, while the store held a workout of that identity.
C11_Witness ==
    \E r \in Requests :
       /\ req[r].op = "createWorkoutAction"
       /\ req[r].session \in Users
       /\ req[r].args.raw.name = ""
       /\ req[r].args.raw.description # NULL
       /\ req[r].args.raw.date <= Now
       /\ req[r].result = Error("Name is required")
       /\ \E w \in Range(workouts) : w.userId = req[r].session

\* C12: createWorkoutHelper inserts a workout owned by the caller, whatever
\* fields its data carries, and returns it with an id that no workout of
\* the store had.
C12_CreatedOwnedByCaller ==
    \A r \in Requests :
       (req[r].op = "createWorkoutHelper" /\ req[r].result.tag = "workout") =>
          /\ req[r].result.workout.userId = req[r].session
          /\ \A w \in Range(req[r].seen) : w.id # req[r].result.workout.id

\* The updates of workout id that have been applied and whose request has
\* not ended.
AppliedUpdates(id) ==
    {r \in Requests : /\ req[r].op = "updateWorkoutHelper"
                      /\ req[r].pc = "done"
                      /\ req[r].args.workoutId = id
                      /\ req[r].result.tag = "workout"}

\* C13: concurrent update race.  When two updates of the owner with
\* different names have both been applied to one workout, however their
\* statements interleaved, the workout's name is one of the two names
\* submitted and every other column is as it was.
C13_LastWriteWins ==
    \A w \in Range(workouts) :
       \A r, q \in AppliedUpdates(w.id) :
          (r # q /\ req[r].args.data.name # req[q].args.data.name) =>
             /\ w.name \in {req[r].args.data.name, req[q].args.data.name}
             /\ w.name \in {req[r].result.workout.name, req[q].result.workout.name}
             /\ \A f \in DOMAIN w \ {"name"} : w[f] = req[r].fetched[1][f]

\* C13 witness: both updates read the workout under its first name, so each
\* SELECT ran before either UPDATE, and the workout now has one of the names.
C13_Witness ==
    \E w \in Range(workouts) :
       \E r, q \in AppliedUpdates(w.id) :
          /\ r # q
          /\ req[r].args.data.name # req[q].args.data.name
          /\ req[r].fetched[1].name = "Leg Day"
          /\ req[q].fetched[1].name = "Leg Day"
          /\ w.name = req[r].args.data.name

\* What was written in the round trip, under the ids the store issued: the
\* workout of DetailInputs owned by u, the exercise "Squat" at order 0 and
\* the two sets of SetInput at orders 0 and 1.
Written(u, workoutId, exerciseId, setIds) ==
    LET d == CHOOSE x \in DetailInputs : TRUE
        set(o) == [id |-> setIds[o + 1], exerciseId |-> exerciseId, order |-> o,
                   reps |-> SetInput(o).reps, weightKg |-> SetInput(o).weightKg,
                   restTimeSeconds |-> SetInput(o).restTimeSeconds]
    IN  [id |-> workoutId, userId |-> u, name |-> d.name, description |-> <<>>,
         date |-> d.date, durationMinutes |-> <<>>,
         exercises |-> <<[id |-> exerciseId, workoutId |-> workoutId,
                          name |-> "Squat", description |-> <<>>, order |-> 0,
                          sets |-> <<set(0), set(1)>>]>>]

C19_OrderUniqueWithinParent ==
    /\ \A i, j \in DOMAIN exercises :
          (i # j /\ exercises[i].workoutId = exercises[j].workoutId)
             => exercises[i].order # exercises[j].order
    /\ \A i, j \in DOMAIN exerciseSets :
          (i # j /\ exerciseSets[i].exerciseId = exerciseSets[j].exerciseId)
             => exerciseSets[i].order # exerciseSets[j].order

\* C18: a read helper that takes the identity as a parameter treats an empty
\* userId as Unauthorized: it ends with that error and runs no query.
C18_EmptyUserIdUnauthorized ==
    \A r \in Requests :
       (/\ req[r].op \in {"getWorkoutsOf", "getWorkoutWithExercisesAndSetsOf"}
        /\ req[r].args.userId = ""
        /\ req[r].pc = "done") =>
          /\ req[r].result = Unauthorized
          /\ req[r].queries = 0

\* C20: no orphans.  After any sequence of creates and deletes every exercise
\* row references a workout that exists and every set row references an
\* exercise that exists.
C20_NoOrphans ==
    /\ \A i \in DOMAIN exercises :
          \E j \in DOMAIN workouts : workouts[j].id = exercises[i].workoutId
    /\ \A i \in DOMAIN exerciseSets :
          \E j \in DOMAIN exercises : exercises[j].id = exerciseSets[i].exerciseId

\* C20 witness: the owner's delete of a workout that has an exercise with a
\* set has run, and the exercise and the set are still in the store.
C20_Witness ==
    \E r \in Requests :
       /\ req[r].op = "deleteWorkoutHelper"
       /\ req[r].pc = "done"
       /\ req[r].fetched # <<>>
       /\ req[r].fetched[1].userId = req[r].userId
       /\ \E e \in Range(exercises) :
             /\ e.workoutId = req[r].args.workoutId
             /\ \E x \in Range(exerciseSets) : x.exerciseId = e.id

\* C21: an identity adds, changes or removes an exercise or a set only under
\* a workout it owns.  Every row a child helper inserted, updated or deleted
\* had, when the statement ran, an ancestor workout owned by the caller; a
\* call by anyone else ends in an error and touches no row.
C21_ChildMutationNeedsOwnership ==
    \A r \in Requests :
       req[r].op \in ChildOps =>
          /\ req[r].affected # <<>> =>
                /\ req[r].fetched # <<>>
                /\ req[r].fetched[1] \in Range(req[r].seen)
                /\ req[r].fetched[1].userId = req[r].session
                /\ req[r].op \in {"createExercise", "updateExercise", "deleteExercise"}
                      => req[r].affected[1].workoutId = req[r].fetched[1].id
          /\ (req[r].pc = "done" /\ req[r].fetched # <<>>
                 /\ req[r].fetched[1].userId # req[r].session)
                => req[r].result = Error("Forbidden") /\ req[r].affected = <<>>

\* C21 witness: an identity's delete of a set under another identity's
\* workout ended with Forbidden, and the set is still stored.
C21_Witness ==
    \E r \in Requests :
       /\ req[r].op = "deleteExerciseSet"
       /\ req[r].session \in Users
       /\ req[r].fetched # <<>>
       /\ req[r].fetched[1].userId # req[r].session
       /\ req[r].result = Error("Forbidden")
       /\ \E x \in Range(exerciseSets) : x.id = req[r].args.id

C23_NotFoundForMissingAndForeign ==
    \A r \in DetailCalls :
       (/\ req[r].session \in Users
        /\ \/ req[r].fetched = <<>>
           \/ req[r].fetched[1].userId # req[r].session)
          => WorkoutDetailsPage(req[r].result) = NotFound

\* C24: a server action lets the redirect signal propagate.  When the delete
\* helper succeeded, deleteWorkoutAction ends in the redirect to /workouts and
\* returns no { error } value; it returns { error } only when the helper
\* failed.
C24_RedirectPropagates ==
    \A r \in Requests :
       (req[r].op = "deleteWorkoutAction" /\ req[r].pc = "done") =>
          /\ req[r].failed = <<>> => req[r].result = Redirect("/workouts")
          /\ "error" \in DOMAIN req[r].result => req[r].failed # <<>>

\* C25: validation invariant.  After any create or update that went through
\* the server actions and their helpers, every stored workout has a name of
\* at least one character and a duration that is absent or a positive whole
\* number.
C25_StoredWorkoutsValid ==
    \A w \in Range(workouts) :
       /\ Len(w.name) >= 1
       /\ \/ w.durationMinutes = <<>>
          \/ /\ w.durationMinutes[1] > 0
             /\ w.durationMinutes[1] % 10 = 0

\* C25 witness: updateWorkoutAction wrote a new name and a duration of 45
\* minutes to a workout that createWorkoutAction had stored.
C25_Witness ==
    \E r \in Requests :
       /\ req[r].op = "updateWorkoutHelper"
       /\ "raw" \in DOMAIN req[r].args
       /\ req[r].affected # <<>>
       /\ \E w \in Range(workouts) :
             /\ w.id = req[r].args.workoutId
             /\ w.name = "Push Day"
             /\ w.durationMinutes = <<Minutes(45)>>

\* C26: frame condition of updates.  An update leaves id and userId of the
\* workout as they were, for every partial payload the helper accepts: a
\* workout that is stored before and after a step has the same owner.
C26_UpdateKeepsIdAndOwner ==
    [][\A w \in Range(workouts) :
          \A v \in Range(workouts') : v.id = w.id => v.userId = w.userId]_vars

\* What a rejected mutation ends with.
Rejections == {Error("Unauthorized"), Error("Workout not found"), Error("Forbidden")}

\* C27: frame condition of rejections.  A mutation that ends Unauthorized,
\* not-found or Forbidden changes nothing in the whole store: the steps a
\* helper takes before its mutating statement leave every table as it is,
\* and the step that rejects has issued no statement after the SELECT and
\* hit no row.
C27_RejectionChangesNothing ==
    [][\A r \in Requests :
          (/\ req[r].op \in {"updateWorkoutHelper", "deleteWorkoutHelper"}
           /\ req[r].pc \in {"auth", "select"}
           /\ req'[r] # req[r]) =>
             /\ <<workouts, exercises, exerciseSets, nextId>>' =
                   <<workouts, exercises, exerciseSets, nextId>>
             /\ req'[r].result \in Rejections =>
                   /\ req'[r].pc = "done"
                   /\ req'[r].affected = <<>>
                   /\ req'[r].queries <= 1]_vars

\* C27 witness: an update of another identity's workout ended with
\* Forbidden, and the row the helper fetched is still stored as it was.
C27_Witness ==
    \E r \in Requests :
       /\ req[r].op = "updateWorkoutHelper"
       /\ req[r].result = Error("Forbidden")
       /\ req[r].fetched # <<>>
       /\ req[r].fetched[1].userId # req[r].session
       /\ req[r].fetched[1] \in Range(workouts)

\* The requests for the dashboard, at any stage.
DashboardCalls == {r \in Requests : "redirects" \in DOMAIN req[r].args}

\* C28: the dashboard for day D lists every workout of the caller whose date
\* is within day D in the user's time zone, from its first instant through
\* its last (23:59:59.999) inclusive, and no workout outside that day.
C28_DashboardListsTheDay ==
    \A r \in DashboardCalls \cap ListCalls :
       LET offset == tzOffset(UserTimezone(req[r].args.cookies))[1]
           day == req[r].args.dateParam[1].day[1]
       IN  \A w \in Range(req[r].seen) :
              (w \in Range(req[r].result.rows))
                 <=> (w.userId = req[r].session /\ LocalDay(w.date, offset) = day)

\* C29: date normalisation of the dashboard.  A request with a valid date is
\* never redirected; a request whose date is missing or not valid is
\* redirected once, to today's date in the user's time zone (UTC without
\* cookie), which is a valid date; no request is redirected twice.
C29_OneRedirectToToday ==
    \A r \in DashboardCalls :
       /\ req[r].args.redirects <= 1
       /\ IsValidDateParam(req[r].args.requested) => req[r].args.redirects = 0
       /\ (~IsValidDateParam(req[r].args.requested) /\ req[r].pc # "page") =>
             /\ req[r].args.redirects = 1
             /\ req[r].args.dateParam = req[r].args.location
             /\ IsValidDateParam(req[r].args.location)

\* C30: the two generations of read helpers agree.  For the same caller and
\* the same filter, the getWorkouts that takes userId as parameter and the
\* one that derives it through the gate return the same rows in the same
\* order; the detail helpers return the same, except for a workout of
\* another owner, where the earlier one returns not-found and the later one
\* raises Forbidden.  Each answer a request received is also the answer the
\* other generation's query gives on the table that request read.
C30_GenerationsAgree ==
    /\ \A u \in Users, f \in Filters :
          GetWorkoutsOfQuery(workouts, u, f)
             = GetWorkoutsQuery(workouts, authClient(u).userId, f)
    /\ \A u \in Users, id \in WorkoutIds :
          LET found == FindFirstWorkoutOf(workouts, exercises, exerciseSets, id, u)
              earlier == IF found = <<>> THEN Undefined
                         ELSE [tag |-> "workout", workout |-> found[1]]
              later == DetailResult(FindFirstWorkout(workouts, exercises,
                                                     exerciseSets, id),
                                    authClient(u).userId)
          IN  IF \E w \in Range(workouts) : w.id = id /\ w.userId # u
              THEN earlier = Undefined /\ later = Forbidden
              ELSE earlier = later
    /\ \A r \in ListCalls :
          req[r].result.rows
             = GetWorkoutsOfQuery(req[r].seen, req[r].session, req[r].args.filter)
    /\ \A r \in Requests :
          (req[r].op = "getWorkoutsOf" /\ req[r].pc = "done") =>
             req[r].result.rows
                = GetWorkoutsQuery(req[r].seen, req[r].args.userId, req[r].args.filter)
    /\ \A r \in Requests :
          (req[r].op = "getWorkoutWithExercisesAndSetsOf" /\ req[r].pc = "done") =>
             LET hit == SelectRows(req[r].seen,
                                   {w \in Range(req[r].seen) :
                                       w.id = req[r].args.workoutId})
             IN  IF hit # <<>> /\ hit[1].userId # req[r].args.userId
                 THEN /\ req[r].result = Undefined
                      /\ DetailResult(hit, req[r].args.userId) = Forbidden
                 ELSE req[r].result.tag
                         = DetailResult(hit, req[r].args.userId).tag

\* C30 witness: with workouts of both identities stored, the earlier detail
\* helper answered a call for another owner's workout with not-found, where
\* the later helper raises Forbidden, and both list queries return the
\* caller's rows.
C30_Witness ==
    \E r \in Requests :
       /\ req[r].op = "getWorkoutWithExercisesAndSetsOf"
       /\ req[r].result = Undefined
       /\ \E w \in Range(workouts) :
             /\ w.id = req[r].args.workoutId
             /\ w.userId # req[r].args.userId
             /\ DetailResult(FindFirstWorkout(workouts, exercises, exerciseSets, w.id),
                             req[r].args.userId) = Forbidden
       /\ GetWorkoutsOfQuery(workouts, req[r].args.userId, <<>>) # <<>>

====
